---------------------------- MODULE Spec2Model ----------------------------
(***************************************************************************)
(* A model of examples/server/client.py: the command-line client of the    *)
(* sd-server OpenAI-compatible images/generations endpoint.                *)
(*                                                                         *)
(* Python str values are sequences of one-character strings, bytes values  *)
(* are sequences of integers 0..255, and a JSON / Python value is a tagged *)
(* record [t |-> type, v |-> payload].  A dict that the code only reads    *)
(* with .get() is a function from key names to values; a dict whose        *)
(* insertion order reaches json.dumps is a sequence of <<key, value>>.     *)
(***************************************************************************)
EXTENDS Integers, Sequences, FiniteSets, TLC

VARIABLES
    pc,              \* position of the process in main()
    environ,         \* SD_SERVER_URL of the environment ("none" record when unset)
    argv,            \* the flags given on the command line
    util_opts,       \* main: util_opts
    gen_opts,        \* main: gen_opts
    api_data,        \* main: api_payload
    requests,        \* HTTP requests issued so far
    response_body,   \* main: response_body
    decoded_images,  \* decode_openai_response: decoded_images (local)
    idx,             \* loop index i of the running for loop
    images,          \* main: images
    dirs,            \* directories that exist besides "", "." and "/"
    files,           \* the files on disk: path -> bytes
    opened,          \* the paths open(filepath, "wb") was called with, in order
    exc,             \* the exception that ended the run, if any
    exit_code,       \* process exit status, -1 while running
    stdout,          \* lines printed to stdout (by kind)
    stderr           \* lines printed to stderr (by kind)

vars == <<pc, environ, argv, util_opts, gen_opts, api_data, requests,
          response_body, decoded_images, idx, images, dirs, files, opened,
          exc, exit_code, stdout, stderr>>

-----------------------------------------------------------------------------
(* Bounds of the model *)

MaxImages == 3

MaxBeginIdx == 2

MaxRecords == 2

-----------------------------------------------------------------------------
(* Python values *)

None == [t |-> "none", v |-> 0]

Num(n) == [t |-> "num", v |-> n]

Str(s) == [t |-> "str", v |-> s]

Bool(b) == [t |-> "bool", v |-> b]

List(s) == [t |-> "list", v |-> s]

Obj(f) == [t |-> "obj", v |-> f]

NoExc == [type |-> "none", kind |-> "none", item |-> -1]

Exc(type, kind, item) == [type |-> type, kind |-> kind, item |-> item]

\* dict.get(key) is not None, for a dict that holds no None value
Has(d, k) == k \in DOMAIN d

\* bool(x) of a Python value
Truthy(x) ==
    CASE x.t = "none" -> FALSE
      [] x.t = "num"  -> x.v # 0
      [] x.t = "bool" -> x.v
      [] x.t = "str"  -> Len(x.v) > 0
      [] x.t = "list" -> Len(x.v) > 0
      [] x.t = "obj"  -> DOMAIN x.v # {}

\* bool(d.get(k))
GetTruthy(d, k) == Has(d, k) /\ Truthy(d[k])

-----------------------------------------------------------------------------
(* str helpers *)

Digits == <<"0", "1", "2", "3", "4", "5", "6", "7", "8", "9">>

IsDigit(c) == \E d \in 1..10 : Digits[d] = c

DigitVal(c) == (CHOOSE d \in 1..10 : Digits[d] = c) - 1

RECURSIVE NatStr(_)
\* str(n) for n >= 0
NatStr(n) == IF n < 10 THEN <<Digits[n + 1]>>
             ELSE NatStr(n \div 10) \o <<Digits[(n % 10) + 1]>>

RECURSIVE DigitsVal(_)
\* the value of a run of decimal digits (0 for the empty run)
DigitsVal(s) == IF s = <<>> THEN 0
                ELSE 10 * DigitsVal(SubSeq(s, 1, Len(s) - 1)) + DigitVal(s[Len(s)])

Repeat(c, n) == [k \in 1..n |-> c]

\* s[a:b] with 0-based a, b
Slice(s, a, b) == SubSeq(s, a + 1, b)

\* s.rfind(c) + 1
RFind1(s, c) == IF \E k \in 1..Len(s) : s[k] = c
                THEN CHOOSE k \in 1..Len(s) : s[k] = c /\ \A j \in (k + 1)..Len(s) : s[j] # c
                ELSE 0

RECURSIVE RStrip(_, _)
\* s.rstrip(c)
RStrip(s, c) == IF s # <<>> /\ s[Len(s)] = c THEN RStrip(SubSeq(s, 1, Len(s) - 1), c) ELSE s

EndsWith(s, c) == s # <<>> /\ s[Len(s)] = c

-----------------------------------------------------------------------------
(* os.path, re and printf as save_images uses them *)

\* os.path.split(p) -> <<head, tail>>
PathSplit(p) ==
    LET i    == RFind1(p, "/")
        head == Slice(p, 0, i)
        tail == Slice(p, i, Len(p))
    IN  IF head # <<>> /\ (\E k \in 1..Len(head) : head[k] # "/")
        THEN <<RStrip(head, "/"), tail>>
        ELSE <<head, tail>>

\* os.path.splitext(f) of a name without separator -> <<root, ext>>
PathSplitExt(f) ==
    LET dot == RFind1(f, ".")
    IN  IF dot > 0 /\ (\E k \in 1..(dot - 1) : f[k] # ".")
        THEN <<Slice(f, 0, dot - 1), Slice(f, dot - 1, Len(f))>>
        ELSE <<f, <<>> >>

\* os.path.join(a, b)
PathJoin(a, b) ==
    IF b # <<>> /\ b[1] = "/" THEN b
    ELSE IF a = <<>> \/ EndsWith(a, "/") THEN a \o b
    ELSE a \o <<"/">> \o b

\* the end (exclusive, 0-based) of a match of %\d*d starting at 0-based p, or -1
MatchEndAt(f, p) ==
    IF p >= Len(f) \/ f[p + 1] # "%" THEN -1
    ELSE LET q == CHOOSE q \in (p + 1)..Len(f) :
                      /\ \A j \in (p + 2)..q : IsDigit(f[j])
                      /\ (q = Len(f) \/ ~IsDigit(f[q + 1]))
         IN  IF q < Len(f) /\ f[q + 1] = "d" THEN q + 1 ELSE -1

\* re.search(r'%\d*d', f): <<start, end>> of the leftmost match, <<-1, -1>> if none
ReSearch(f) ==
    IF \E p \in 0..(Len(f) - 1) : MatchEndAt(f, p) >= 0
    THEN LET p == CHOOSE p \in 0..(Len(f) - 1) :
                      /\ MatchEndAt(f, p) >= 0
                      /\ \A r \in 0..(p - 1) : MatchEndAt(f, r) < 0
         IN  <<p, MatchEndAt(f, p)>>
    ELSE <<-1, -1>>

\* spec % n for spec = "%" [0 flags] [width] "d", with an optional literal
\* prefix in front of the "%" (the synthesized "_%d")
PyFormat(spec, n) ==
    LET pct    == CHOOSE k \in 1..Len(spec) : spec[k] = "%"
        lit    == SubSeq(spec, 1, pct - 1)
        ds     == SubSeq(spec, pct + 1, Len(spec) - 1)
        zero   == ds # <<>> /\ ds[1] = "0"
        width  == DigitsVal(ds)
        sign   == IF n < 0 THEN <<"-">> ELSE <<>>
        mag    == NatStr(IF n < 0 THEN -n ELSE n)
        pad    == width - Len(sign) - Len(mag)
    IN  lit \o (IF pad <= 0 THEN sign \o mag
                ELSE IF zero THEN sign \o Repeat("0", pad) \o mag
                ELSE Repeat(" ", pad) \o sign \o mag)


-----------------------------------------------------------------------------
(* parse_arguments *)

\* the default of -o/--output
DefaultOutput == <<".","/","o","u","t","p","u","t",".","p","n","g">>

\* the dests of the utility flags (util_keys)
util_keys == {"verbose", "server_url", "output", "output_begin_idx"}

\* the dests of the generation flags the model gives values to, and the
\* derived output_format
gen_keys == {"prompt", "negative_prompt", "height", "width", "batch_count", "seed",
             "skip_layers", "increase_ref_index", "output_format"}

\* argparse's default of a dest no flag sets
ArgDefault(k, env) ==
    CASE k = "server_url" -> env
      [] k = "output"     -> Str(DefaultOutput)
      [] k = "verbose"    -> Bool(FALSE)
      [] k = "prompt"     -> Str(<<>>)
      [] OTHER            -> None

RECURSIVE SplitOn(_, _)
\* s.split(c)
SplitOn(s, c) ==
    IF \E k \in 1..Len(s) : s[k] = c
    THEN LET k == CHOOSE k \in 1..Len(s) : s[k] = c /\ \A j \in 1..(k - 1) : s[j] # c
         IN  <<SubSeq(s, 1, k - 1)>> \o SplitOn(SubSeq(s, k + 1, Len(s)), c)
    ELSE <<s>>

\* int(x) accepts x: an optional sign and at least one digit (of the tokens
\* the model draws; whitespace and underscores do not occur in them)
IsIntToken(x) ==
    LET body == IF x # <<>> /\ x[1] \in {"-", "+"} THEN Tail(x) ELSE x
    IN  body # <<>> /\ \A k \in 1..Len(body) : IsDigit(body[k])

\* int(x)
PyInt(x) == IF x[1] = "-" THEN -DigitsVal(Tail(x))
            ELSE IF x[1] = "+" THEN DigitsVal(Tail(x)) ELSE DigitsVal(x)

\* lines 97-99 raise ValueError
SkipLayersBad(av) ==
    /\ Has(av, "skip_layers")
    /\ \E tok \in { SplitOn(av["skip_layers"].v, ",")[k] :
                       k \in 1..Len(SplitOn(av["skip_layers"].v, ",")) } : ~IsIntToken(tok)

\* s.lower() on the letters of the extensions the model draws
Lower(s) ==
    [k \in 1..Len(s) |->
        CASE s[k] = "J" -> "j" [] s[k] = "P" -> "p" [] s[k] = "G" -> "g"
          [] s[k] = "E" -> "e" [] s[k] = "N" -> "n" [] OTHER -> s[k]]

JpegExts == {<<".","j","p","g">>, <<".","j","p","e","g">>, <<".","j","p","e">>}

\* lines 101-106
OutputFormat(out) ==
    IF Lower(PathSplitExt(out)[2]) \in JpegExts THEN <<"j","p","e","g">> ELSE <<"p","n","g">>

\* args_dict after lines 95-106, for flags av and environment value env
ArgsDict(av, env) ==
    [k \in util_keys \cup gen_keys |->
        IF k = "skip_layers" /\ Has(av, k)
        THEN LET toks == SplitOn(av[k].v, ",")
             IN  List([j \in 1..Len(toks) |-> Num(PyInt(toks[j]))])
        ELSE IF k = "output_format"
        THEN LET out == IF Has(av, "output") THEN av["output"] ELSE ArgDefault("output", env)
             IN  IF Truthy(out)
                 THEN Str(OutputFormat(PathSplit(out.v)[2]))
                 ELSE None
        ELSE IF Has(av, k) THEN av[k] ELSE ArgDefault(k, env)]

\* line 110
UtilOpts(av, env) ==
    [k \in {k \in util_keys : ArgsDict(av, env)[k].t # "none"} |-> ArgsDict(av, env)[k]]

\* line 111
GenOpts(av, env) ==
    [k \in {k \in gen_keys : ArgsDict(av, env)[k].t # "none"} |-> ArgsDict(av, env)[k]]

-----------------------------------------------------------------------------
(* json.dumps *)

\* the characters of a key name
KeyChars(k) ==
    CASE k = "negative_prompt" -> <<"n","e","g","a","t","i","v","e","_","p","r","o","m","p","t">>
      [] k = "seed" -> <<"s","e","e","d">>
      [] k = "video_frames" -> <<"v","i","d","e","o","_","f","r","a","m","e","s">>
      [] k = "fps" -> <<"f","p","s">>
      [] k = "cfg_scale" -> <<"c","f","g","_","s","c","a","l","e">>
      [] k = "img_cfg_scale" -> <<"i","m","g","_","c","f","g","_","s","c","a","l","e">>
      [] k = "guidance" -> <<"g","u","i","d","a","n","c","e">>
      [] k = "strength" -> <<"s","t","r","e","n","g","t","h">>
      [] k = "steps" -> <<"s","t","e","p","s">>
      [] k = "sample_method" -> <<"s","a","m","p","l","e","_","m","e","t","h","o","d">>
      [] k = "scheduler" -> <<"s","c","h","e","d","u","l","e","r">>
      [] k = "high_noise_steps" -> <<"h","i","g","h","_","n","o","i","s","e","_","s","t","e","p","s">>
      [] k = "high_noise_sample_method" -> <<"h","i","g","h","_","n","o","i","s","e","_","s","a","m","p","l","e","_","m","e","t","h","o","d">>
      [] k = "clip_skip" -> <<"c","l","i","p","_","s","k","i","p">>
      [] k = "upscale_repeats" -> <<"u","p","s","c","a","l","e","_","r","e","p","e","a","t","s">>
      [] k = "moe_boundary" -> <<"m","o","e","_","b","o","u","n","d","a","r","y">>
      [] k = "control_strength" -> <<"c","o","n","t","r","o","l","_","s","t","r","e","n","g","t","h">>
      [] k = "pm_style_strength" -> <<"p","m","_","s","t","y","l","e","_","s","t","r","e","n","g","t","h">>
      [] k = "vace_strength" -> <<"v","a","c","e","_","s","t","r","e","n","g","t","h">>
      [] k = "cache_mode" -> <<"c","a","c","h","e","_","m","o","d","e">>
      [] k = "cache_option" -> <<"c","a","c","h","e","_","o","p","t","i","o","n">>
      [] k = "cache_preset" -> <<"c","a","c","h","e","_","p","r","e","s","e","t">>
      [] k = "scm_mask" -> <<"s","c","m","_","m","a","s","k">>
      [] k = "increase_ref_index" -> <<"i","n","c","r","e","a","s","e","_","r","e","f","_","i","n","d","e","x">>
      [] k = "auto_resize_ref_image" -> <<"a","u","t","o","_","r","e","s","i","z","e","_","r","e","f","_","i","m","a","g","e">>
      [] k = "skip_layers" -> <<"s","k","i","p","_","l","a","y","e","r","s">>
      [] k = "high_noise_skip_layers" -> <<"h","i","g","h","_","n","o","i","s","e","_","s","k","i","p","_","l","a","y","e","r","s">>
      [] k = "width" -> <<"w","i","d","t","h">>
      [] k = "height" -> <<"h","e","i","g","h","t">>
      [] k = "size" -> <<"s","i","z","e">>
      [] k = "output_format" -> <<"o","u","t","p","u","t","_","f","o","r","m","a","t">>
      [] k = "n" -> <<"n">>
      [] k = "prompt" -> <<"p","r","o","m","p","t">>
      [] k = "data" -> <<"d","a","t","a">>
      [] k = "b64_json" -> <<"b","6","4","_","j","s","o","n">>
      [] k = "url" -> <<"u","r","l">>
      [] k = "created" -> <<"c","r","e","a","t","e","d">>

RECURSIVE EscapeStr(_)
\* the body of a JSON string literal: " and \ are escaped (the model draws no
\* control or non-ASCII character)
EscapeStr(s) ==
    IF s = <<>> THEN <<>>
    ELSE (IF s[1] \in {"\"", "\\"} THEN <<"\\", s[1]>> ELSE <<s[1]>>) \o EscapeStr(Tail(s))

Quote(s) == <<"\"">> \o EscapeStr(s) \o <<"\"">>

RECURSIVE JoinSeq(_, _)
\* sep.join(parts)
JoinSeq(parts, sep) ==
    IF parts = <<>> THEN <<>>
    ELSE IF Len(parts) = 1 THEN parts[1]
    ELSE parts[1] \o sep \o JoinSeq(Tail(parts), sep)

\* json.dumps of a scalar or of a list of integers
DumpsValue(x) ==
    CASE x.t = "none" -> <<"n","u","l","l">>
      [] x.t = "bool" -> IF x.v THEN <<"t","r","u","e">> ELSE <<"f","a","l","s","e">>
      [] x.t = "num"  -> IF x.v < 0 THEN <<"-">> \o NatStr(-x.v) ELSE NatStr(x.v)
      [] x.t = "str"  -> Quote(x.v)
      [] x.t = "list" -> <<"[">> \o JoinSeq([k \in 1..Len(x.v) |->
                             IF x.v[k].v < 0 THEN <<"-">> \o NatStr(-x.v[k].v)
                             ELSE NatStr(x.v[k].v)], <<",", " ">>) \o <<"]">>

\* json.dumps of a dict (a sequence of <<key, value>> in insertion order)
Dumps(d) ==
    <<"{">> \o JoinSeq([k \in 1..Len(d) |->
                 Quote(KeyChars(d[k][1])) \o <<":", " ">> \o DumpsValue(d[k][2])],
               <<",", " ">>) \o <<"}">>

-----------------------------------------------------------------------------
(* build_openai_payload *)

extension_keys == <<
    "negative_prompt", "seed", "video_frames",
    "fps", "cfg_scale", "img_cfg_scale",
    "guidance", "strength", "steps",
    "sample_method", "scheduler", "high_noise_steps",
    "high_noise_sample_method", "clip_skip", "upscale_repeats",
    "moe_boundary", "control_strength", "pm_style_strength",
    "vace_strength", "cache_mode", "cache_option",
    "cache_preset", "scm_mask", "increase_ref_index",
    "auto_resize_ref_image", "skip_layers", "high_noise_skip_layers">>

OpenTag == <<"<","s","d","_","c","p","p","_","e","x","t","r","a","_","a","r","g","s",">">>

CloseTag == <<"<","/","s","d","_","c","p","p","_","e","x","t","r","a","_","a","r","g","s",">">>

RECURSIVE ExtensionLoop(_, _)
\* lines 132-134: extension_data after the first n keys of extension_keys
ExtensionLoop(gen, n) ==
    IF n = 0 THEN <<>>
    ELSE LET key == extension_keys[n]
         IN  IF Has(gen, key)
             THEN Append(ExtensionLoop(gen, n - 1), <<key, gen[key]>>)
             ELSE ExtensionLoop(gen, n - 1)

\* "if width and height": the test that folds the two into size
BothDimensions(gen) == GetTruthy(gen, "width") /\ GetTruthy(gen, "height")

\* "elif width"
LoneWidth(gen) == ~BothDimensions(gen) /\ GetTruthy(gen, "width")

\* "elif height"
LoneHeight(gen) == ~BothDimensions(gen) /\ ~LoneWidth(gen) /\ GetTruthy(gen, "height")

\* extension_data at line 152
ExtensionData(gen) ==
    ExtensionLoop(gen, Len(extension_keys))
      \o (IF LoneWidth(gen) THEN << <<"width", gen["width"]>> >> ELSE <<>>)
      \o (IF LoneHeight(gen) THEN << <<"height", gen["height"]>> >> ELSE <<>>)

\* f"{width}x{height}"
SizeString(gen) == DumpsValue(gen["width"]) \o <<"x">> \o DumpsValue(gen["height"])

\* the prompt field, line 153
PromptField(gen) ==
    (IF Has(gen, "prompt") THEN gen["prompt"].v ELSE <<>>)
      \o OpenTag \o Dumps(ExtensionData(gen)) \o CloseTag

\* api_data as returned, lines 116-155
build_openai_payload(gen, util) ==
    (IF BothDimensions(gen) THEN << <<"size", Str(SizeString(gen))>> >> ELSE <<>>)
      \o (IF GetTruthy(gen, "output_format")
          THEN << <<"output_format", gen["output_format"]>> >> ELSE <<>>)
      \o (IF GetTruthy(gen, "batch_count") THEN << <<"n", gen["batch_count"]>> >> ELSE <<>>)
      \o << <<"prompt", Str(PromptField(gen))>> >>

\* d.get(k) of a dict kept in insertion order
DictHas(d, k) == \E j \in 1..Len(d) : d[j][1] = k

DictGet(d, k) == d[CHOOSE j \in 1..Len(d) : d[j][1] = k][2]

-----------------------------------------------------------------------------
(* Process exit *)

\* mutant of Uncaught: the exception is logged and the run goes on
UncaughtSwallowed(e) ==
    /\ exc' = e
    /\ exit_code' = exit_code
    /\ stderr' = stderr
    /\ pc' = pc

\* an exception no handler of main catches: traceback on stderr, status 1
Uncaught(e) ==
    /\ exc' = e
    /\ exit_code' = 1
    /\ stderr' = Append(stderr, "Traceback")
    /\ pc' = "exit"

\* sys.exit(code)
SysExit(code) ==
    /\ exit_code' = code
    /\ pc' = "exit"

-----------------------------------------------------------------------------
(* base64.b64decode, as binascii.a2b_base64 decodes without validation *)

B64Alphabet == <<
    "A", "B", "C", "D", "E", "F", "G", "H", "I", "J", "K", "L", "M", "N", "O", "P",
    "Q", "R", "S", "T", "U", "V", "W", "X", "Y", "Z", "a", "b", "c", "d", "e", "f",
    "g", "h", "i", "j", "k", "l", "m", "n", "o", "p", "q", "r", "s", "t", "u", "v",
    "w", "x", "y", "z", "0", "1", "2", "3", "4", "5", "6", "7", "8", "9", "+", "/">>

\* table_a2b_base64: the 6-bit value of c, 64 for a character outside the alphabet
B64Index(c) == IF \E k \in 1..64 : B64Alphabet[k] = c
               THEN (CHOOSE k \in 1..64 : B64Alphabet[k] = c) - 1
               ELSE 64

RECURSIVE A2B(_, _, _)
\* the decoding loop from position k, st = [quad_pos, leftchar, pads, out, done]
A2B(s, k, st) ==
    IF st.done \/ k > Len(s) THEN st
    ELSE IF s[k] = "="
    THEN IF st.quad_pos >= 2
         THEN IF st.quad_pos + st.pads + 1 >= 4
              THEN [st EXCEPT !.pads = @ + 1, !.done = TRUE]
              ELSE A2B(s, k + 1, [st EXCEPT !.pads = @ + 1])
         ELSE A2B(s, k + 1, st)
    ELSE IF B64Index(s[k]) >= 64 THEN A2B(s, k + 1, st)
    ELSE LET c == B64Index(s[k])
         IN  A2B(s, k + 1,
                 CASE st.quad_pos = 0 ->
                        [st EXCEPT !.pads = 0, !.quad_pos = 1, !.leftchar = c]
                   [] st.quad_pos = 1 ->
                        [st EXCEPT !.pads = 0, !.quad_pos = 2, !.leftchar = c % 16,
                                   !.out = Append(@, ((st.leftchar * 4) + (c \div 16)) % 256)]
                   [] st.quad_pos = 2 ->
                        [st EXCEPT !.pads = 0, !.quad_pos = 3, !.leftchar = c % 4,
                                   !.out = Append(@, ((st.leftchar * 16) + (c \div 4)) % 256)]
                   [] st.quad_pos = 3 ->
                        [st EXCEPT !.pads = 0, !.quad_pos = 0, !.leftchar = 0,
                                   !.out = Append(@, ((st.leftchar * 64) + c) % 256)])

A2BRun(s) == A2B(s, 1, [quad_pos |-> 0, leftchar |-> 0, pads |-> 0, out |-> <<>>, done |-> FALSE])

\* base64.b64decode(s) raises binascii.Error
B64DecodeRaises(s) == ~A2BRun(s).done /\ A2BRun(s).quad_pos # 0

\* base64.b64decode(s) when it returns
b64decode(s) == A2BRun(s).out

-----------------------------------------------------------------------------
(* decode_openai_response *)

Malformed == [t |-> "malformed", v |-> 0]

\* sub in s, for two str
Contains(s, sub) ==
    \E k \in 0..(Len(s) - Len(sub)) : SubSeq(s, k + 1, k + Len(sub)) = sub

RECURSIVE SetToSeq(_)
SetToSeq(S) == IF S = {} THEN <<>>
               ELSE LET x == CHOOSE x \in S : TRUE IN <<x>> \o SetToSeq(S \ {x})

DataChars == KeyChars("data")

\* the verdict of "'data' not in data" (line 164) on the parsed body:
\* "absent", "present", or "TypeError" when the body supports no membership test
DataKeyTest(body) ==
    CASE body.t = "obj"  -> IF "data" \in DOMAIN body.v THEN "present" ELSE "absent"
      [] body.t = "str"  -> IF Contains(body.v, DataChars) THEN "present" ELSE "absent"
      [] body.t = "list" -> IF \E k \in 1..Len(body.v) :
                                  body.v[k].t = "str" /\ body.v[k].v = DataChars
                            THEN "present" ELSE "absent"
      [] OTHER           -> "TypeError"

\* what enumerate(x) yields, for an iterable x
IterItems(x) ==
    CASE x.t = "list" -> x.v
      [] x.t = "str"  -> [k \in 1..Len(x.v) |-> Str(<<x.v[k]>>)]
      [] x.t = "obj"  -> LET ks == SetToSeq(DOMAIN x.v)
                         IN  [k \in 1..Len(ks) |-> Str(KeyChars(ks[k]))]

Iterable(x) == x.t \in {"list", "str", "obj"}

\* images = data['data'] of the running decode
DataItems == IterItems(response_body.v["data"])

\* main's handler of ValueError, lines 262-264
DecodeError(e) ==
    /\ exc' = e
    /\ stdout' = Append(stdout, "Error decoding response")
    /\ SysExit(1)
    /\ UNCHANGED stderr

\* lines 159-168: json.loads, the 'data' test, images = data['data'], and the
\* start of the enumeration
DecodeEnter ==
    /\ pc = "decode"
    /\ IF response_body.t = "malformed"
       THEN DecodeError(Exc("ValueError", "malformed-json", -1)) /\ UNCHANGED <<idx, decoded_images>>
       ELSE IF DataKeyTest(response_body) = "TypeError"
       THEN Uncaught(Exc("TypeError", "not-a-container", -1))
            /\ UNCHANGED <<idx, decoded_images, stdout>>
       ELSE IF DataKeyTest(response_body) = "absent"
       THEN DecodeError(Exc("ValueError", "unexpected-shape", -1))
            /\ UNCHANGED <<idx, decoded_images>>
       ELSE IF response_body.t # "obj"
       THEN Uncaught(Exc("TypeError", "bad-subscript", -1))
            /\ UNCHANGED <<idx, decoded_images, stdout>>
       ELSE IF ~Iterable(response_body.v["data"])
       THEN Uncaught(Exc("TypeError", "not-iterable", -1))
            /\ UNCHANGED <<idx, decoded_images, stdout>>
       ELSE /\ decoded_images' = <<>>
            /\ idx' = 0
            /\ pc' = "decode_loop"
            /\ UNCHANGED <<exc, exit_code, stdout, stderr>>
    /\ UNCHANGED <<environ, argv, util_opts, gen_opts, api_data, requests,
                   response_body, images, dirs, files, opened>>

\* b64_data is a value b64decode accepts as its argument
IsB64Arg(x) == x.t = "str"

\* lines 170-177, one iteration
DecodeItem ==
    /\ pc = "decode_loop"
    /\ idx < Len(DataItems)
    /\ LET img_data == DataItems[idx + 1]
           b64_data == IF "b64_json" \in DOMAIN img_data.v THEN img_data.v["b64_json"] ELSE None
       IN  IF img_data.t # "obj"
           THEN Uncaught(Exc("AttributeError", "no-get", idx))
                /\ UNCHANGED <<idx, decoded_images, stdout>>
           ELSE IF ~Truthy(b64_data)
           THEN DecodeError(Exc("ValueError", "missing-image-data", idx))
                /\ UNCHANGED <<idx, decoded_images>>
           ELSE IF ~IsB64Arg(b64_data)
           THEN Uncaught(Exc("TypeError", "not-bytes-like", idx))
                /\ UNCHANGED <<idx, decoded_images, stdout>>
           ELSE IF B64DecodeRaises(b64_data.v)
           THEN DecodeError(Exc("ValueError", "bad-encoding", idx))
                /\ UNCHANGED <<idx, decoded_images>>
           ELSE /\ decoded_images' = Append(decoded_images, b64decode(b64_data.v))
                /\ idx' = idx + 1
                /\ UNCHANGED <<pc, exc, exit_code, stdout, stderr>>
    /\ UNCHANGED <<environ, argv, util_opts, gen_opts, api_data, requests,
                   response_body, images, dirs, files, opened>>

\* mutant of DecodeDone: the list is returned from inside the loop
DecodeDoneEarly == idx >= 1 \/ idx = Len(DataItems)

\* the for loop of line 170 is exhausted
DecodeDone == idx = Len(DataItems)

\* line 179 and line 261: the list is returned and bound to images
DecodeReturn ==
    /\ pc = "decode_loop"
    /\ DecodeDone
    /\ images' = decoded_images
    /\ pc' = "save"
    /\ UNCHANGED <<environ, argv, util_opts, gen_opts, api_data, requests,
                   response_body, decoded_images, idx, dirs, files, opened,
                   exc, exit_code, stdout, stderr>>

-----------------------------------------------------------------------------
(* save_images *)

\* output = util_opts.get("output", "./output.png")
output == IF Has(util_opts, "output") THEN util_opts["output"].v ELSE DefaultOutput

dirname == PathSplit(output)[1]

filename == PathSplit(output)[2]

format_specifier == ReSearch(filename)

HasSpecifier == format_specifier[1] >= 0

\* mutant of StartIdxDefault: the two branches share the default 1
StartIdxAlwaysOne == IF HasSpecifier THEN 1 ELSE 1

\* the default start_idx of the two branches
StartIdxDefault == IF HasSpecifier THEN 0 ELSE 1

fmt_pref == IF HasSpecifier THEN Slice(filename, 0, format_specifier[1])
            ELSE PathSplitExt(filename)[1]

fmt_spec == IF HasSpecifier THEN Slice(filename, format_specifier[1], format_specifier[2])
            ELSE <<"_", "%", "d">>

fmt_suf == IF HasSpecifier THEN Slice(filename, format_specifier[2], Len(filename))
           ELSE PathSplitExt(filename)[2]

start_idx == IF Has(util_opts, "output_begin_idx") THEN util_opts["output_begin_idx"].v
             ELSE StartIdxDefault

\* mutant of SeqIndex: the suffixed images are numbered from start_idx
SeqIndexFromSecond(i) == IF HasSpecifier THEN i + start_idx ELSE (i - 1) + start_idx

\* mutant of SeqIndex: the loop index is left out of the name
SeqIndexConstant(i) == start_idx

\* the index formatted into the name of the i-th image
SeqIndex(i) == i + start_idx

\* filepath of the i-th image (i from 0)
filepath(i) ==
    IF ~HasSpecifier /\ i = 0 THEN output
    ELSE PathJoin(dirname, fmt_pref \o PyFormat(fmt_spec, SeqIndex(i)) \o fmt_suf)

\* os.path.exists(d) for a directory name
DirExists(d) == d \in dirs \cup {<<".">>, <<"/">>, <<".", ".">>}

\* open(p, "wb") can succeed only on a path that names a file
Openable(p) == p # <<>> /\ ~EndsWith(p, "/")

\* verbose = util_opts.get("verbose", False)
verbose == Has(util_opts, "verbose") /\ util_opts["verbose"].v

\* lines 183-207: the locals, then the output directory is created
SaveEnter ==
    /\ pc = "save"
    /\ \/ /\ dirs' = IF dirname # <<>> /\ ~DirExists(dirname)
                     THEN dirs \cup {dirname} ELSE dirs
          /\ idx' = 0
          /\ pc' = "save_loop"
          /\ UNCHANGED <<exc, exit_code, stderr>>
       \/ /\ dirname # <<>> /\ ~DirExists(dirname)
          /\ Uncaught(Exc("OSError", "makedirs", -1))
          /\ UNCHANGED <<dirs, idx>>
    /\ UNCHANGED <<environ, argv, util_opts, gen_opts, api_data, requests,
                   response_body, decoded_images, images, files, opened, stdout>>

\* lines 209-220, one iteration whose open and write succeed
SaveWrite ==
    /\ pc = "save_loop"
    /\ idx < Len(images)
    /\ Openable(filepath(idx))
    /\ opened' = Append(opened, filepath(idx))
    /\ files' = [p \in DOMAIN files \cup {filepath(idx)} |->
                    IF p = filepath(idx) THEN images[idx + 1] ELSE files[p]]
    /\ stdout' = IF verbose THEN Append(stdout, "Saved image") ELSE stdout
    /\ idx' = idx + 1
    /\ UNCHANGED <<pc, environ, argv, util_opts, gen_opts, api_data, requests,
                   response_body, decoded_images, images, dirs, exc, exit_code, stderr>>

\* lines 216-217, an iteration in which open() or f.write() raises OSError:
\* open() leaves the disk as it is, a failed write leaves the file truncated
SaveWriteFail ==
    /\ pc = "save_loop"
    /\ idx < Len(images)
    /\ opened' = Append(opened, filepath(idx))
    /\ \/ /\ files' = files
          /\ Uncaught(Exc("OSError", "open", idx))
       \/ /\ Openable(filepath(idx))
          /\ files' = [p \in DOMAIN files \cup {filepath(idx)} |->
                          IF p = filepath(idx) THEN <<>> ELSE files[p]]
          /\ Uncaught(Exc("OSError", "write", idx))
    /\ UNCHANGED <<environ, argv, util_opts, gen_opts, api_data, requests,
                   response_body, decoded_images, idx, images, dirs, stdout>>

\* the loop is exhausted: save_images returns, main returns, status 0
SaveReturn ==
    /\ pc = "save_loop"
    /\ idx = Len(images)
    /\ SysExit(0)
    /\ UNCHANGED <<environ, argv, util_opts, gen_opts, api_data, requests,
                   response_body, decoded_images, idx, images, dirs, files, opened,
                   exc, stdout, stderr>>

-----------------------------------------------------------------------------
(* main *)

EmptyDict == [k \in {} |-> None]

\* lines 90-113 as main calls them at line 224
ParseArguments ==
    /\ pc = "parse"
    /\ stdout' = IF Has(argv, "unknown")
                 THEN stdout \o [k \in 1..argv["unknown"].v |-> "Warning: Unsupported argument"]
                 ELSE stdout
    /\ IF SkipLayersBad(argv)
       THEN Uncaught(Exc("ValueError", "int", -1)) /\ UNCHANGED <<util_opts, gen_opts>>
       ELSE /\ util_opts' = UtilOpts(argv, environ)
            /\ gen_opts' = GenOpts(argv, environ)
            /\ pc' = "check_url"
            /\ UNCHANGED <<exc, exit_code, stderr>>
    /\ UNCHANGED <<environ, argv, api_data, requests, response_body, decoded_images,
                   idx, images, dirs, files, opened>>

\* mutant of ServerUrlMissing: only an unset URL counts, an empty one passes
ServerUrlIsNone == ~Has(util_opts, "server_url")

\* "if not server_url", line 229
ServerUrlMissing == ~GetTruthy(util_opts, "server_url")

\* lines 226-231
CheckUrl ==
    /\ pc = "check_url"
    /\ IF ServerUrlMissing
       THEN /\ stderr' = Append(stderr, "Error: --server-url not provided")
            /\ SysExit(1)
       ELSE /\ pc' = "build"
            /\ UNCHANGED <<exit_code, stderr>>
    /\ UNCHANGED <<environ, argv, util_opts, gen_opts, api_data, requests,
                   response_body, decoded_images, idx, images, dirs, files, opened,
                   exc, stdout>>

\* lines 233-235
endpoint ==
    LET server_url == util_opts["server_url"].v
    IN  (IF EndsWith(server_url, "/") THEN server_url ELSE server_url \o <<"/">>)
          \o <<"v","1","/","i","m","a","g","e","s","/","g","e","n","e","r","a","t","i","o","n","s">>

\* lines 237-241
BuildPayload ==
    /\ pc = "build"
    /\ api_data' = build_openai_payload(gen_opts, util_opts)
    /\ stdout' = IF verbose THEN stdout \o <<"Sending request to", "Payload">> ELSE stdout
    /\ pc' = "request"
    /\ UNCHANGED <<environ, argv, util_opts, gen_opts, requests, response_body,
                   decoded_images, idx, images, dirs, files, opened, exc, exit_code,
                   stderr>>

\* the request of lines 243-244
Request == [url |-> endpoint, data |-> Dumps(api_data)]

\* the response bodies the server of the model answers with
ServerBodies ==
    LET rec(s) == Obj([k \in {"b64_json"} |-> Str(s)])
        elems  == {rec(<<"A","Q","=","=">>), rec(<<"A","g","=","=">>),
                   rec(<<"a","b","c">>), rec(<<"!","!","!">>), Obj(EmptyDict), Num(5)}
    IN  {Malformed, Num(5), Obj(EmptyDict), Obj([k \in {"data"} |-> None])}
          \cup { Obj([k \in {"data"} |-> List(items)]) :
                   items \in UNION { [1..n -> elems] : n \in 0..MaxRecords } }

\* lines 246-258: the exchange, with each way it can end
SendRequest ==
    /\ pc = "request"
    /\ requests' = Append(requests, Request)
    /\ \/ \E body \in ServerBodies :
             /\ response_body' = body
             /\ pc' = "decode"
             /\ UNCHANGED <<exit_code, stdout>>
       \/ \E msg \in {"HTTP Error", "URL Error", "Request Error"} :
             /\ stdout' = Append(stdout, msg)
             /\ SysExit(1)
             /\ UNCHANGED response_body
    /\ UNCHANGED <<environ, argv, util_opts, gen_opts, api_data, decoded_images,
                   idx, images, dirs, files, opened, exc, stderr>>

-----------------------------------------------------------------------------
(* The runs of main *)

Url == <<"h","t","t","p",":","/","/","h">>

\* one optional flag: absent, or given with a value of S
Opt(k, S) == {EmptyDict} \cup { [j \in {k} |-> v] : v \in S }

ArgvMain ==
    { a @@ b @@ c @@ d @@ e :
        a \in Opt("server_url", {Str(<<>>), Str(Url), Str(Url \o <<"/">>)}),
        b \in Opt("output", {Str(<<"a","/","o","_","%","d",".","j","p","g">>)}),
        c \in Opt("verbose", {Bool(TRUE)}),
        d \in Opt("skip_layers", {Str(<<"7",",","8">>), Str(<<"7",",","x">>)}),
        e \in Opt("unknown", {Num(1)}) }

Init ==
    /\ pc = "parse"
    /\ environ \in {None, Str(<<>>), Str(Url)}
    /\ argv \in ArgvMain
    /\ util_opts = EmptyDict
    /\ gen_opts = EmptyDict
    /\ api_data = <<>>
    /\ requests = <<>>
    /\ response_body = None
    /\ decoded_images = <<>>
    /\ idx = 0
    /\ images = <<>>
    /\ dirs = {}
    /\ files = EmptyDict
    /\ opened = <<>>
    /\ exc = NoExc
    /\ exit_code = -1
    /\ stdout = <<>>
    /\ stderr = <<>>

Next ==
    \/ ParseArguments
    \/ CheckUrl
    \/ BuildPayload
    \/ SendRequest
    \/ DecodeEnter
    \/ DecodeItem
    \/ DecodeReturn
    \/ SaveEnter
    \/ SaveWrite
    \/ SaveWriteFail
    \/ SaveReturn

Spec == Init /\ [][Next]_vars

-----------------------------------------------------------------------------
(* save_images on its own: the runs of main from the call at line 266 *)

\* the output templates the model draws
Outputs ==
    {Str(<<"o","u","t",".","p","n","g">>),
     Str(<<".","/","o","u","t",".","p","n","g">>),
     Str(<<"a","/","b",".","p","n","g">>),
     Str(<<"/","x",".","p","n","g">>),
     Str(<<"o">>),
     Str(<<".","p","n","g">>),
     Str(<<"d","/">>),
     Str(<<>>),
     Str(<<"o","u","t","_","%","0","3","d",".","p","n","g">>),
     Str(<<"%","d">>),
     Str(<<"a","/","f","%","2","d",".","j","p","g">>),
     Str(<<"x","%","1","d","%","d">>),
     Str(<<"%","%","d">>),
     Str(<<"n","%","0","d",".","p","n","g">>),
     Str(<<"p","%","5","x","_","%","d">>)}

BeginIdxs == { Num(n) : n \in (-1..MaxBeginIdx) \cup {8, 98} }

ArgvSave ==
    { [k \in {"server_url"} |-> Str(Url)] @@ b @@ c @@ d :
        b \in Opt("output", Outputs),
        c \in Opt("output_begin_idx", BeginIdxs),
        d \in Opt("verbose", {Bool(TRUE)}) }

\* n decoded images, the k-th holding the single byte k
ImagesN(n) == [k \in 1..n |-> <<k>>]

\* base64 of the single byte k
B64OfByte(k) == <<B64Alphabet[(k \div 4) + 1], B64Alphabet[((k % 4) * 16) + 1], "=", "=">>

\* the response body that decodes to ImagesN(n)
ResponseFor(n) ==
    Obj([k \in {"data"} |->
            List([j \in 1..n |-> Obj([f \in {"b64_json"} |-> Str(B64OfByte(j))])])])

\* the state of main when it has parsed av and sent its request
Requested(av, env) ==
    /\ environ = env
    /\ argv = av
    /\ util_opts = UtilOpts(av, env)
    /\ gen_opts = GenOpts(av, env)
    /\ api_data = build_openai_payload(GenOpts(av, env), UtilOpts(av, env))
    /\ requests = <<Request>>
    /\ stdout = IF Has(av, "verbose") THEN <<"Sending request to", "Payload">> ELSE <<>>
    /\ dirs = {}
    /\ files = EmptyDict
    /\ opened = <<>>
    /\ exc = NoExc
    /\ exit_code = -1
    /\ stderr = <<>>

InitSave ==
    /\ pc = "save"
    /\ \E av \in ArgvSave : Requested(av, None)
    /\ \E n \in 0..MaxImages :
          /\ response_body = ResponseFor(n)
          /\ decoded_images = ImagesN(n)
          /\ images = ImagesN(n)
          /\ idx = n

NextSave ==
    \/ SaveEnter
    \/ SaveWrite
    \/ SaveWriteFail
    \/ SaveReturn

SpecSave == InitSave /\ [][NextSave]_vars

-----------------------------------------------------------------------------
(* decode_openai_response on its own: the runs of main from line 261 *)

B64Samples ==
    {<<"a","G","V","s","b","G","8","=">>,
     <<"A","Q","=","=">>,
     <<"A","g","=","=">>,
     <<"!","!","!">>,
     <<"a","b","c">>,
     <<"a">>,
     <<"Q","Q","=","!","=">>,
     <<"Q","!","Q","=">>,
     <<"Q","Q","=","=","Q","Q","=","=">>,
     <<"=">>,
     <<"Q","U","J","D">>}

\* the elements of a data list the model draws
RecordElems ==
    { Obj([k \in {"b64_json"} |-> Str(s)]) : s \in B64Samples }
      \cup { Obj(EmptyDict),
             Obj([k \in {"b64_json"} |-> Str(<<>>)]),
             Obj([k \in {"b64_json"} |-> None]),
             Obj([k \in {"b64_json"} |-> Num(5)]),
             Obj([k \in {"url"} |-> Str(<<"u">>)]),
             Num(5), None, Str(<<"a","b">>), List(<<>>) }

\* the parsed response bodies the model draws, and the unparseable one
Bodies ==
    {Malformed, Num(5), None, Bool(TRUE), Str(DataChars), Str(<<"x">>),
     Str(<<"x">> \o DataChars), List(<<>>), List(<<Str(DataChars)>>), List(<<Num(1)>>),
     Obj(EmptyDict), Obj([k \in {"created"} |-> Num(1)])}
      \cup { Obj([k \in {"data"} |-> x]) :
               x \in {None, Num(5), Bool(FALSE), Str(<<>>), Str(<<"a","b">>),
                      Obj(EmptyDict), Obj([k \in {"url"} |-> Num(1)])} }
      \cup { Obj([k \in {"data"} |-> List(items)]) :
               items \in UNION { [1..n -> RecordElems] : n \in 0..MaxRecords } }
      \cup { Obj([k \in {"data", "created"} |-> IF k = "data" THEN List(<<e>>) ELSE Num(1)]) :
               e \in RecordElems }

InitDecode ==
    /\ pc = "decode"
    /\ \E av \in { [k \in {"server_url"} |-> Str(Url)] @@ c : c \in Opt("verbose", {Bool(TRUE)}) } :
          Requested(av, None)
    /\ response_body \in Bodies
    /\ decoded_images = <<>>
    /\ images = <<>>
    /\ idx = 0

NextDecode ==
    \/ DecodeEnter
    \/ DecodeItem
    \/ DecodeReturn

SpecDecode == InitDecode /\ [][NextDecode]_vars

-----------------------------------------------------------------------------
(* build_openai_payload on its own: the runs of main from line 237 *)

ArgvPayload ==
    { [k \in {"server_url"} |-> Str(Url)] @@ a @@ b @@ c @@ d @@ e @@ f @@ g @@ h @@ i :
        a \in Opt("width", {Num(0), Num(768)}),
        b \in Opt("height", {Num(0), Num(512)}),
        c \in Opt("seed", {Num(0), Num(-1), Num(42)}),
        d \in Opt("negative_prompt", {Str(<<>>), Str(<<"a","\"","b">>), Str(<<"<","/","s","d","_","c","p","p","_","e","x","t","r","a","_","a","r","g","s",">">>), Str(<<"\\">>)}),
        e \in Opt("skip_layers", {Str(<<"7",",","8">>)}),
        f \in Opt("increase_ref_index", {Bool(TRUE)}),
        g \in Opt("batch_count", {Num(0), Num(2)}),
        h \in Opt("prompt", {Str(<<"c","a","t">>), Str(<<"<","s","d","_","c","p","p","_","e","x","t","r","a","_","a","r","g","s",">">>), Str(<<"}","<","/","s","d","_","c","p","p","_","e","x","t","r","a","_","a","r","g","s",">">>)}),
        i \in Opt("output", {Str(<<"a",".","J","P","G">>)}) }

InitPayload ==
    /\ pc = "build"
    /\ argv \in ArgvPayload
    /\ environ = None
    /\ util_opts = UtilOpts(argv, environ)
    /\ gen_opts = GenOpts(argv, environ)
    /\ api_data = <<>>
    /\ requests = <<>>
    /\ response_body = None
    /\ decoded_images = <<>>
    /\ idx = 0
    /\ images = <<>>
    /\ dirs = {}
    /\ files = EmptyDict
    /\ opened = <<>>
    /\ exc = NoExc
    /\ exit_code = -1
    /\ stdout = <<>>
    /\ stderr = <<>>

NextPayload == BuildPayload

SpecPayload == InitPayload /\ [][NextPayload]_vars

-----------------------------------------------------------------------------
(* Properties of save_images, checked under SpecSave *)

\* the decimal numeral of an integer
IntStr(n) == IF n < 0 THEN <<"-">> \o NatStr(-n) ELSE NatStr(n)

\* the starting index s of the claims: the override, else 0 with a
\* placeholder and 1 without
ClaimStart ==
    IF "output_begin_idx" \in DOMAIN util_opts THEN util_opts["output_begin_idx"].v
    ELSE IF HasSpecifier THEN 0 ELSE 1

\* dirname/stem_<n>ext of the supplied path
SynthesizedPath(n) ==
    PathJoin(dirname, PathSplitExt(filename)[1] \o <<"_">> \o IntStr(n) \o PathSplitExt(filename)[2])

\* C1 as stated: without a placeholder, image 0 goes to the literal path and
\* images 1..N-1 go to stem_<index>ext with the indices starting at s, so that
\* image k >= 1 carries the index s + (k - 1)
C1_SuffixStartsAtS ==
    ~HasSpecifier =>
        \A k \in 1..Len(opened) :
            opened[k] = IF k = 1 THEN output ELSE SynthesizedPath(ClaimStart + (k - 2))

\* C1 amended: without a placeholder, image 0 goes to the literal path and
\* image k, for k = 1..N-1, goes to stem_<s + k>ext
C1_SuffixIsSPlusK ==
    ~HasSpecifier =>
        \A k \in 1..Len(opened) :
            opened[k] = IF k = 1 THEN output ELSE SynthesizedPath(ClaimStart + (k - 1))

\* out.png, no starting index, three images written: out.png, out_2.png, out_3.png
C1_Witness ==
    /\ pc = "exit" /\ exit_code = 0
    /\ output = <<"o","u","t",".","p","n","g">>
    /\ ~Has(util_opts, "output_begin_idx")
    /\ opened = <<<<"o","u","t",".","p","n","g">>, <<"o","u","t","_","2",".","p","n","g">>, <<"o","u","t","_","3",".","p","n","g">>>>

RECURSIVE StripSpaces(_)
StripSpaces(s) == IF s # <<>> /\ s[1] = " " THEN StripSpaces(Tail(s)) ELSE s

\* F is n printed by %d with minimum width w, padded with zeros if zero and
\* with spaces otherwise: read back, F is n, and it is as long as w asks and
\* no longer than n needs
IsPrintfOf(F, w, zero, n) ==
    LET body == StripSpaces(F)
        neg  == body # <<>> /\ body[1] = "-"
        digs == IF neg THEN Tail(body) ELSE body
    IN  /\ digs # <<>>
        /\ \A k \in 1..Len(digs) : IsDigit(digs[k])
        /\ (IF neg THEN -DigitsVal(digs) ELSE DigitsVal(digs)) = n
        /\ neg <=> n < 0
        /\ Len(F) = (IF w > Len(IntStr(n)) THEN w ELSE Len(IntStr(n)))
        /\ Len(body) < Len(F) => ~zero
        /\ Len(digs) + (IF neg THEN 1 ELSE 0) > Len(IntStr(n)) => zero

\* C2: with a placeholder %<width>d, the i-th image (i = 0..N-1) is written to
\* prefix + format(placeholder, s + i) + suffix in the output directory
C2_PlaceholderSequence ==
    HasSpecifier =>
        LET from  == format_specifier[1]
            to    == format_specifier[2]
            ds    == SubSeq(filename, from + 2, to - 1)
            pre   == SubSeq(filename, 1, from)
            suf   == SubSeq(filename, to + 1, Len(filename))
        IN  \A k \in 1..Len(opened) :
              \E F \in { SubSeq(opened[k], a, b) : a \in 1..(Len(opened[k]) + 1), b \in 0..Len(opened[k]) } :
                /\ opened[k] = PathJoin(dirname, pre \o F \o suf)
                /\ IsPrintfOf(F, DigitsVal(ds), ds # <<>> /\ ds[1] = "0", ClaimStart + (k - 1))

\* out_%03d.png, no starting index, three images: out_000.png, out_001.png, out_002.png
C2_Witness ==
    /\ pc = "exit" /\ exit_code = 0
    /\ output = <<"o","u","t","_","%","0","3","d",".","p","n","g">>
    /\ ~Has(util_opts, "output_begin_idx")
    /\ opened = <<<<"o","u","t","_","0","0","0",".","p","n","g">>, <<"o","u","t","_","0","0","1",".","p","n","g">>, <<"o","u","t","_","0","0","2",".","p","n","g">>>>

\* C7: a batch that is written through writes exactly one path per image, in
\* order, no two of them the same, and each file holds its own image
C7_OnePathPerImage ==
    /\ \A j, k \in 1..Len(opened) : j # k => opened[j] # opened[k]
    /\ Len(opened) <= Len(images)
    /\ (pc = "exit" /\ exit_code = 0) =>
          /\ Len(opened) = Len(images)
          /\ \A k \in 1..Len(images) :
                opened[k] \in DOMAIN files /\ files[opened[k]] = images[k]

\* a batch of at least three images written through, with and without placeholder
C7_Witness ==
    /\ pc = "exit" /\ exit_code = 0
    /\ Len(images) >= 3
    /\ Len(opened) = Len(images)
    /\ ~HasSpecifier
    /\ Has(util_opts, "output_begin_idx")

-----------------------------------------------------------------------------
(* Reading the extension side channel back out of a prompt: a JSON reader  *)
(* for objects of integers, strings, booleans, null and lists of integers  *)

ParseFail == [ok |-> FALSE, val |-> None, pos |-> 0]

ParseOk(v, k) == [ok |-> TRUE, val |-> v, pos |-> k]

RECURSIVE SkipWs(_, _)
SkipWs(s, k) == IF k <= Len(s) /\ s[k] = " " THEN SkipWs(s, k + 1) ELSE k

HasAt(s, k, sub) == k + Len(sub) - 1 <= Len(s) /\ SubSeq(s, k, k + Len(sub) - 1) = sub

RECURSIVE ParseStringBody(_, _, _)
\* the string literal whose opening quote is just before position k
ParseStringBody(s, k, acc) ==
    IF k > Len(s) THEN ParseFail
    ELSE IF s[k] = "\"" THEN ParseOk(Str(acc), k + 1)
    ELSE IF s[k] = "\\"
    THEN IF k + 1 <= Len(s) /\ s[k + 1] \in {"\"", "\\"}
         THEN ParseStringBody(s, k + 2, Append(acc, s[k + 1]))
         ELSE ParseFail
    ELSE ParseStringBody(s, k + 1, Append(acc, s[k]))

\* an integer literal at position k
ParseNumber(s, k) ==
    LET neg   == k <= Len(s) /\ s[k] = "-"
        from  == IF neg THEN k + 1 ELSE k
        to    == CHOOSE e \in (from - 1)..Len(s) :
                     /\ \A j \in from..e : IsDigit(s[j])
                     /\ (e = Len(s) \/ ~IsDigit(s[e + 1]))
        digs  == SubSeq(s, from, to)
    IN  IF digs = <<>> \/ (Len(digs) > 1 /\ digs[1] = "0") THEN ParseFail
        ELSE ParseOk(Num(IF neg THEN -DigitsVal(digs) ELSE DigitsVal(digs)), to + 1)

RECURSIVE ParseIntList(_, _, _)
\* the elements of a list, from position k, acc read so far
ParseIntList(s, k, acc) ==
    LET k1 == SkipWs(s, k)
        n  == ParseNumber(s, k1)
        k2 == SkipWs(s, n.pos)
    IN  IF k1 <= Len(s) /\ s[k1] = "]" /\ acc = <<>> THEN ParseOk(List(acc), k1 + 1)
        ELSE IF ~n.ok \/ k2 > Len(s) THEN ParseFail
        ELSE IF s[k2] = "]" THEN ParseOk(List(Append(acc, n.val)), k2 + 1)
        ELSE IF s[k2] = "," THEN ParseIntList(s, k2 + 1, Append(acc, n.val))
        ELSE ParseFail

ParseValue(s, k) ==
    IF k > Len(s) THEN ParseFail
    ELSE IF s[k] = "\"" THEN ParseStringBody(s, k + 1, <<>>)
    ELSE IF s[k] = "[" THEN ParseIntList(s, k + 1, <<>>)
    ELSE IF HasAt(s, k, <<"t","r","u","e">>) THEN ParseOk(Bool(TRUE), k + 4)
    ELSE IF HasAt(s, k, <<"f","a","l","s","e">>) THEN ParseOk(Bool(FALSE), k + 5)
    ELSE IF HasAt(s, k, <<"n","u","l","l">>) THEN ParseOk(None, k + 4)
    ELSE ParseNumber(s, k)

RECURSIVE ParseMembers(_, _, _)
\* the members of an object, from position k, acc the <<key, value>> read so far
ParseMembers(s, k, acc) ==
    LET k1  == SkipWs(s, k)
        key == IF k1 <= Len(s) /\ s[k1] = "\"" THEN ParseStringBody(s, k1 + 1, <<>>) ELSE ParseFail
        k2  == SkipWs(s, key.pos)
        val == IF key.ok /\ k2 <= Len(s) /\ s[k2] = ":"
               THEN ParseValue(s, SkipWs(s, k2 + 1)) ELSE ParseFail
        k3  == SkipWs(s, val.pos)
    IN  IF ~val.ok \/ k3 > Len(s) THEN ParseFail
        ELSE IF s[k3] = "}" THEN ParseOk(Append(acc, <<key.val.v, val.val>>), k3 + 1)
        ELSE IF s[k3] = "," THEN ParseMembers(s, k3 + 1, Append(acc, <<key.val.v, val.val>>))
        ELSE ParseFail

\* json.loads of a text that should hold one object: its members, or ParseFail
ParseObject(s) ==
    LET k1   == SkipWs(s, 1)
        k2   == SkipWs(s, k1 + 1)
        body == IF k1 > Len(s) \/ s[k1] # "{" THEN ParseFail
                ELSE IF k2 <= Len(s) /\ s[k2] = "}" THEN ParseOk(<<>>, k2 + 1)
                ELSE ParseMembers(s, k1 + 1, <<>>)
    IN  IF body.ok /\ SkipWs(s, body.pos) = Len(s) + 1 THEN body ELSE ParseFail

\* the first position >= from at which sub occurs in s, 0 if none
Find(s, sub, from) ==
    IF \E k \in from..(Len(s) - Len(sub) + 1) : HasAt(s, k, sub)
    THEN CHOOSE k \in from..(Len(s) - Len(sub) + 1) :
             HasAt(s, k, sub) /\ \A j \in from..(k - 1) : ~HasAt(s, j, sub)
    ELSE 0

\* the text between the opening tag and the closing tag that follows it
ExtractExtra(prompt) ==
    LET o == Find(prompt, OpenTag, 1)
        c == IF o = 0 THEN 0 ELSE Find(prompt, CloseTag, o + Len(OpenTag))
    IN  IF c = 0 THEN [found |-> FALSE, text |-> <<>>]
        ELSE [found |-> TRUE, text |-> SubSeq(prompt, o + Len(OpenTag), c - 1)]

\* the members of the extension object a reader gets out of the prompt field
ReadBack ==
    LET ex == ExtractExtra(DictGet(api_data, "prompt").v)
        ob == ParseObject(ex.text)
    IN  IF ex.found /\ ob.ok
        THEN [ok |-> TRUE, members |-> { ob.val[k] : k \in 1..Len(ob.val) }]
        ELSE [ok |-> FALSE, members |-> {}]

-----------------------------------------------------------------------------
(* Properties of build_openai_payload, checked under SpecPayload *)

ExtKeySet == { extension_keys[k] : k \in 1..Len(extension_keys) }

WidthGiven == "width" \in DOMAIN gen_opts

HeightGiven == "height" \in DOMAIN gen_opts

\* the extension key/value set of the supplied options: the allow-listed
\* ones, plus a lone width or a lone height
SuppliedExtension ==
    { <<KeyChars(k), gen_opts[k]>> : k \in DOMAIN gen_opts \cap ExtKeySet }
      \cup (IF WidthGiven /\ ~HeightGiven THEN {<<KeyChars("width"), gen_opts["width"]>>} ELSE {})
      \cup (IF HeightGiven /\ ~WidthGiven THEN {<<KeyChars("height"), gen_opts["height"]>>} ELSE {})

\* the members of extension_data as the payload carries them
CarriedExtension == { <<KeyChars(ExtensionData(gen_opts)[k][1]), ExtensionData(gen_opts)[k][2]>> :
                        k \in 1..Len(ExtensionData(gen_opts)) }

CarriedKeys == { ExtensionData(gen_opts)[k][1] : k \in 1..Len(ExtensionData(gen_opts)) }

\* C3: both given => size = "{width}x{height}" and neither in the extension;
\* only width => no size, width in the extension; only height => no size,
\* height in the extension; neither => no size, width or height anywhere
C3_WidthHeightFolding ==
    pc = "request" =>
        /\ (WidthGiven /\ HeightGiven) =>
              /\ DictHas(api_data, "size")
              /\ DictGet(api_data, "size") =
                    Str(IntStr(gen_opts["width"].v) \o <<"x">> \o IntStr(gen_opts["height"].v))
              /\ CarriedKeys \cap {"width", "height"} = {}
        /\ (WidthGiven /\ ~HeightGiven) =>
              /\ ~DictHas(api_data, "size")
              /\ <<KeyChars("width"), gen_opts["width"]>> \in CarriedExtension
        /\ (HeightGiven /\ ~WidthGiven) =>
              /\ ~DictHas(api_data, "size")
              /\ <<KeyChars("height"), gen_opts["height"]>> \in CarriedExtension
        /\ (~WidthGiven /\ ~HeightGiven) =>
              /\ ~DictHas(api_data, "size")
              /\ CarriedKeys \cap {"width", "height"} = {}
        /\ \A j \in 1..Len(api_data) : api_data[j][1] \notin {"width", "height"}

\* C6: the text between the tags of the prompt field parses as JSON to exactly
\* the extension key/value set of the supplied options
C6_ExtensionRoundTrip ==
    pc = "request" => ReadBack.ok /\ ReadBack.members = SuppliedExtension

-----------------------------------------------------------------------------
(* Properties of decode_openai_response, checked under SpecDecode *)

\* s is base64 text: a multiple of four characters of the alphabet, the last
\* one or two of which may be "="
ValidBase64(s) ==
    /\ Len(s) % 4 = 0
    /\ \E pads \in 0..2 :
          /\ pads <= Len(s)
          /\ \A k \in 1..Len(s) :
                IF k > Len(s) - pads THEN s[k] = "=" ELSE B64Index(s[k]) < 64

\* the body is an object whose data is a list
HasDataList(body) ==
    body.t = "obj" /\ "data" \in DOMAIN body.v /\ body.v["data"].t = "list"

\* a record that carries a non-empty b64_json string
HasB64String(r) ==
    r.t = "obj" /\ "b64_json" \in DOMAIN r.v /\ r.v["b64_json"].t = "str" /\ r.v["b64_json"].v # <<>>

Finished == pc \in {"save", "exit"}

\* C4: when record i carries a non-empty b64_json string that is not valid
\* base64 and the records before it are valid, decoding fails with the
\* bad-encoding error for item i
C4_BadBase64Rejected ==
    (Finished /\ HasDataList(response_body)) =>
        LET recs == response_body.v["data"].v
        IN  \A i \in 1..Len(recs) :
              ( /\ HasB64String(recs[i]) /\ ~ValidBase64(recs[i].v["b64_json"].v)
                /\ \A j \in 1..(i - 1) :
                      HasB64String(recs[j]) /\ ValidBase64(recs[j].v["b64_json"].v) )
              => (pc = "exit" /\ exc = Exc("ValueError", "bad-encoding", i - 1))

\* a parseable body without a data list of objects
BadShape(body) ==
    /\ body.t # "malformed"
    /\ ~( /\ HasDataList(body)
          /\ \A k \in 1..Len(body.v["data"].v) : body.v["data"].v[k].t = "obj" )

\* C10: every parseable body without a data list of objects ends in the
\* unexpected-shape ValueError that main reports as "Error decoding response"
C10_BadShapeIsValueError ==
    (Finished /\ BadShape(response_body)) =>
        /\ pc = "exit"
        /\ exc.type = "ValueError" /\ exc.kind = "unexpected-shape"
        /\ \E k \in 1..Len(stdout) : stdout[k] = "Error decoding response"

-----------------------------------------------------------------------------
(* Properties of the runs of main, checked under Spec *)

DecodeKinds == {"malformed-json", "unexpected-shape", "missing-image-data", "bad-encoding",
                "not-a-container", "bad-subscript", "not-iterable", "no-get", "not-bytes-like"}

\* decode_openai_response raised
DecodeFailed == exc.kind \in DecodeKinds

\* every record of the response is one the decoder turns into bytes, and
\* images holds those bytes in order
EveryRecordDecoded ==
    /\ HasDataList(response_body)
    /\ Len(images) = Len(response_body.v["data"].v)
    /\ \A k \in 1..Len(images) :
          LET r == response_body.v["data"].v[k]
          IN  /\ HasB64String(r)
              /\ ~B64DecodeRaises(r.v["b64_json"].v)
              /\ images[k] = b64decode(r.v["b64_json"].v)

\* C5: a decode that fails at any record returns no image and the run writes
\* no file; a file is written only after every record has been decoded
C5_AllOrNothing ==
    /\ DecodeFailed =>
          /\ images = <<>> /\ opened = <<>> /\ DOMAIN files = {}
          /\ pc = "exit" /\ exit_code = 1
    /\ pc = "decode_loop" => (images = <<>> /\ opened = <<>>)
    /\ (opened # <<>> \/ DOMAIN files # {}) => EveryRecordDecoded

\* the last record fails after an earlier one was decoded, and nothing is written
C5_Witness ==
    /\ pc = "exit"
    /\ exc = Exc("ValueError", "bad-encoding", 1)
    /\ Len(decoded_images) = 1
    /\ opened = <<>> /\ DOMAIN files = {}

\* the write of some image raised OSError
WriteFailed == exc.type = "OSError" /\ exc.kind \in {"open", "write"}

\* C8: when the write of image k fails, no later write is attempted, the files
\* of images 0..k-1 stay on disk with their contents, and the run ends as a
\* failure
C8_WriteFailureAborts ==
    WriteFailed =>
        /\ pc = "exit" /\ exit_code = 1
        /\ Len(opened) = exc.item + 1
        /\ \A j \in 1..exc.item :
              opened[j] \in DOMAIN files /\ files[opened[j]] = images[j]

\* the second write fails after the first file was written
C8_Witness ==
    /\ WriteFailed /\ exc.item = 1
    /\ Len(images) >= 2
    /\ opened[1] \in DOMAIN files /\ files[opened[1]] = images[1]

\* neither --server-url nor SD_SERVER_URL gives a non-empty URL
NoServerUrl ==
    /\ ("server_url" \in DOMAIN argv => argv["server_url"].v = <<>>)
    /\ (environ.t = "str" => environ.v = <<>>)

\* C9: without a server URL the run ends with a non-zero status before any
\* request is issued: no payload is built or sent and no file is written
C9_NoUrlNoNetwork ==
    NoServerUrl =>
        /\ pc \in {"parse", "check_url", "exit"}
        /\ requests = <<>> /\ api_data = <<>>
        /\ opened = <<>> /\ DOMAIN files = {} /\ dirs = {}
        /\ pc = "exit" => exit_code # 0

\* the run that reports the missing URL and exits with status 1
C9_Witness ==
    /\ NoServerUrl
    /\ pc = "exit" /\ exit_code = 1
    /\ stderr = <<"Error: --server-url not provided">>
    /\ requests = <<>>

=============================================================================
